---- MODULE Spec2Model ----
(***************************************************************************)
(* MarketSync AI: the price fetch with its one-hour memoization            *)
(* (data_service.py), the feature builder, the classifier use and the      *)
(* backtest loop (ai_service.py), and the dashboard script (main.py).      *)
(*                                                                         *)
(* Prices are positive integers, a date is the ordinal of its trading day  *)
(* in the fetched table, returns and asset values are exact fractions,     *)
(* probabilities and thresholds are in hundredths.  The fitted random      *)
(* forest is a library object: its probabilities are a free choice.        *)
(***************************************************************************)
EXTENDS Integers, Sequences, FiniteSets, TLC

VARIABLES
    raw_df,            \* the price table handed to the pipeline
    threshold,         \* probability cutoff, in hundredths
    bt_pc,             \* position inside run_backtest
    data,              \* add_technical_indicators(df): dates that survive dropna
    X,                 \* X.index: dates of the feature rows
    y,                 \* label rows <<Date, Label>>
    split_point,       \* int(len(X) * 0.8)
    probs,             \* model.predict_proba(X)[:, 1], in hundredths
    predictions,       \* (probs >= threshold).astype(int)
    actual_returns,    \* returns_col.loc[X.index]: rows <<Date, Ret>>
    current_strategy,  \* running strategy multiplier
    current_market,    \* running buy-and-hold multiplier
    strategy_assets,   \* [1.0] + one value per walked day
    market_assets,     \* [1.0] + one value per walked day
    positions,         \* positions appended by the loop
    results_df,        \* the emitted Backtest Records
    buy_signals,       \* main.py: rows of results_df with Position.diff() == 1
    sell_signals,      \* main.py: rows of results_df with Position.diff() == -1
    raised,            \* the exception that ended the call, "" if none
    prev_threshold,    \* the slider value of the previous run, 0 if none
    prev_predictions,  \* the positions of the previous run
    cache,             \* st.cache_data store of load_market_data: period -> entry
    now,               \* the clock, in seconds
    last_call,         \* what the last load_market_data call did
    pc,                \* position of the dashboard script
    period_option,     \* sidebar: selected period
    lag_days,          \* sidebar: S&P500 time lag
    run_prediction,    \* sidebar: prediction button pressed
    run_simulation,    \* sidebar: simulation button pressed
    df_display,        \* process_lag_data: the lagged table
    df_normalized,     \* process_lag_data: the table scaled to start at 100
    result,            \* train_and_predict's return value
    exc,               \* the exception in flight or caught: type and the stage it left
    ui                 \* the elements rendered so far, in order

btVars == <<raw_df, threshold, bt_pc, data, X, y, split_point, probs, predictions,
            actual_returns, current_strategy, current_market, strategy_assets,
            market_assets, positions, results_df, buy_signals, sell_signals, raised>>

sliderVars == <<prev_threshold, prev_predictions>>
cacheVars == <<cache, now, last_call>>
widgetVars == <<period_option, lag_days, run_prediction, run_simulation>>
scriptVars == <<pc, df_display, df_normalized, result, exc, ui>>
appVars == <<sliderVars, cacheVars, widgetVars, scriptVars>>

vars == <<btVars, appVars>>

----------------------------------------------------------------------------
(* Bounds of the model *)

MaxRows == 22          \* longest price table

(* Program constants *)

MAWindow == 5          \* rolling(window=5)
RSIWindow == 14        \* rolling(window=14)
MaxLag == 3            \* shift(3)
SplitNum == 8          \* 0.8 as SplitNum / SplitDen
SplitDen == 10

----------------------------------------------------------------------------
(* Exact fractions *)

NaN == -1              \* a missing price
NaNRet == [n |-> 0, d |-> 0]   \* an undefined return

Abs(a) == IF a < 0 THEN -a ELSE a
Max(a, b) == IF a >= b THEN a ELSE b
Min(a, b) == IF a <= b THEN a ELSE b

RECURSIVE GCD(_, _)
GCD(a, b) == IF b = 0 THEN a ELSE GCD(b, a % b)

Norm(n, d) ==
    LET g == GCD(Abs(n), d) IN [n |-> n \div g, d |-> d \div g]

One == [n |-> 1, d |-> 1]
RMul(a, b) == IF a = NaNRet \/ b = NaNRet THEN NaNRet ELSE Norm(a.n * b.n, a.d * b.d)
RAdd(a, b) == IF a = NaNRet \/ b = NaNRet THEN NaNRet ELSE Norm(a.n * b.d + b.n * a.d, a.d * b.d)
RSub(a, b) == IF a = NaNRet \/ b = NaNRet THEN NaNRet ELSE Norm(a.n * b.d - b.n * a.d, a.d * b.d)
RPos(a) == a # NaNRet /\ a.n > 0

RECURSIVE SumSeq(_)
SumSeq(s) == IF s = <<>> THEN 0 ELSE Head(s) + SumSeq(Tail(s))

SeqRange(s) == {s[i] : i \in DOMAIN s}

RECURSIVE Select(_, _)
Select(s, keep) ==
    IF s = <<>> THEN <<>>
    ELSE IF Head(s) \in keep THEN <<Head(s)>> \o Select(Tail(s), keep)
         ELSE Select(Tail(s), keep)

----------------------------------------------------------------------------
(* Price tables *)

AllCols == {"S&P500", "TOPIX(ETF)", "USDJPY"}

Patterns == {"rise", "zigzag", "wave", "stepflat", "flat"}

TopixPrice(pat, i) ==
    CASE pat = "rise"     -> 10 + i
      [] pat = "zigzag"   -> IF i % 2 = 0 THEN 11 ELSE 10
      [] pat = "wave"     -> IF i % 3 = 1 THEN 10 ELSE IF i % 3 = 2 THEN 12 ELSE 11
      [] pat = "stepflat" -> IF i = 1 THEN 10
                             ELSE IF i <= 16 THEN 11
                             ELSE IF i % 2 = 1 THEN 12 ELSE 11
      [] OTHER            -> 10

PriceTable(n, pat, cols) ==
    [cols |-> cols,
     rows |-> [i \in 1..n |-> [Date |-> i, SP |-> 100 + i,
                               TP |-> TopixPrice(pat, i), FX |-> 150 + (i % 2)]]]

----------------------------------------------------------------------------
(* Feature Builder: add_technical_indicators *)

Present(rows, col, i) == i \in DOMAIN rows /\ rows[i][col] # NaN

\* Series.pct_change(): undefined on the first row
PctChange(rows, col, i) ==
    IF i >= 2 /\ Present(rows, col, i) /\ Present(rows, col, i - 1)
    THEN RSub(Norm(rows[i][col], rows[i - 1][col]), One)
    ELSE NaNRet

\* Series.shift(k) of pct_change
Lagged(rows, col, i, k) ==
    IF i - k >= 1 THEN PctChange(rows, col, i - k) ELSE NaNRet

\* rolling(window=w): defined only when all w observations of the window are
RollingFull(defined, i, w) ==
    i - w + 1 >= 1 /\ \A j \in (i - w + 1)..i : j \in defined

\* data["S&P500"] / data["S&P500"].rolling(window=5).mean() - 1
MA5(rows, i) ==
    IF RollingFull({j \in DOMAIN rows : Present(rows, "SP", j)}, i, MAWindow)
    THEN RSub(Norm(rows[i].SP * MAWindow,
                   SumSeq([k \in 1..MAWindow |-> rows[i - MAWindow + k].SP])), One)
    ELSE NaNRet

\* data["TOPIX(ETF)"].pct_change().rolling(window=5).std(): only whether it is defined
VolatilityDefined(rows, i) ==
    RollingFull({j \in DOMAIN rows : PctChange(rows, "TP", j) # NaNRet}, i, MAWindow)

\* diff = data["TOPIX(ETF)"].diff(); up = diff.clip(lower=0); down = -diff.clip(upper=0)
DiffDefined(rows, i) == i >= 2 /\ Present(rows, "TP", i) /\ Present(rows, "TP", i - 1)
Up(rows, i) == Max(rows[i].TP - rows[i - 1].TP, 0)
Down(rows, i) == Max(rows[i - 1].TP - rows[i].TP, 0)

\* avg_gain / avg_loss over the 14-day window, then 100 - 100 / (1 + rs):
\* 0/0 is undefined, x/0 is infinite and saturates the oscillator at 100
RSI(rows, i) ==
    IF ~RollingFull({j \in DOMAIN rows : DiffDefined(rows, j)}, i, RSIWindow) THEN NaNRet
    ELSE LET gain == SumSeq([k \in 1..RSIWindow |-> Up(rows, i - RSIWindow + k)])
             loss == SumSeq([k \in 1..RSIWindow |-> Down(rows, i - RSIWindow + k)])
         IN  IF gain = 0 /\ loss = 0 THEN NaNRet
             ELSE IF loss = 0 THEN [n |-> 100, d |-> 1]
             ELSE RSub([n |-> 100, d |-> 1],
                       Norm(100 * loss, loss + gain))

\* data.dropna(): a row survives when every indicator of it is defined
RowComplete(rows, i) ==
    /\ \A col \in {"SP", "TP", "FX"} : Present(rows, col, i)
    /\ PctChange(rows, "SP", i) # NaNRet
    /\ PctChange(rows, "FX", i) # NaNRet
    /\ MA5(rows, i) # NaNRet
    /\ VolatilityDefined(rows, i)
    /\ RSI(rows, i) # NaNRet
    /\ \A k \in 1..MaxLag : Lagged(rows, "SP", i, k) # NaNRet

RequiredCols == <<"S&P500", "USDJPY", "TOPIX(ETF)">>   \* in the order the code reads them

MissingCol(df) ==
    LET missing == {k \in 1..Len(RequiredCols) : RequiredCols[k] \notin df.cols}
    IN  IF missing = {} THEN ""
        ELSE RequiredCols[CHOOSE k \in missing : \A m \in missing : k <= m]

\* returns the dates of data.dropna(), or the KeyError of an absent column
add_technical_indicators(df) ==
    IF MissingCol(df) # ""
    THEN [err |-> "KeyError", data |-> <<>>]
    ELSE [err |-> "",
          data |-> Select([i \in 1..Len(df.rows) |-> df.rows[i].Date],
                          {df.rows[i].Date : i \in {j \in 1..Len(df.rows) :
                                                       RowComplete(df.rows, j)}})]

----------------------------------------------------------------------------
(* Feature Builder: get_features_and_target *)

RowOf(df, date) == CHOOSE i \in 1..Len(df.rows) : df.rows[i].Date = date

\* data["TOPIX(ETF)"].pct_change().shift(-1), computed on the rows that survived dropna
TargetReturn(df, dat, k) ==
    IF k + 1 <= Len(dat)
    THEN RSub(Norm(df.rows[RowOf(df, dat[k + 1])].TP, df.rows[RowOf(df, dat[k])].TP), One)
    ELSE NaNRet

ButLast(s) == IF s = <<>> THEN <<>> ELSE SubSeq(s, 1, Len(s) - 1)

get_features_and_target(df) ==
    LET ind == add_technical_indicators(df)
        dat == ind.data
        target_returns == [k \in 1..Len(dat) |-> [Date |-> dat[k], Ret |-> TargetReturn(df, dat, k)]]
        yAll == [k \in 1..Len(dat) |->
                    [Date |-> dat[k], Label |-> IF RPos(target_returns[k].Ret) THEN 1 ELSE 0]]
        valid_indices == {dat[k] : k \in {j \in 1..Len(dat) : target_returns[j].Ret # NaNRet}}
        Xloc == Select(dat, valid_indices)
        yloc == Select(yAll, {r \in SeqRange(yAll) : r.Date \in valid_indices})
    IN  IF ind.err # "" THEN [err |-> ind.err, X |-> <<>>, y |-> <<>>, data |-> <<>>]
        ELSE [err |-> "", X |-> ButLast(Xloc), y |-> ButLast(yloc), data |-> dat]

----------------------------------------------------------------------------
(* Backtest Simulator: run_backtest, one action per block of the function *)

Thresholds == {30, 35, 40, 45, 50, 55, 60, 65, 70}   \* the slider's values
ProbSet == {20, 50, 60}                              \* probabilities the forest may give

\* the comparison turned around
PositionsInverted(p, t) == [i \in DOMAIN p |-> IF p[i] <= t THEN 1 ELSE 0]

\* predictions = (probs >= threshold).astype(int)
Positions(p, t) == [i \in DOMAIN p |-> IF p[i] >= t THEN 1 ELSE 0]

\* actual_returns = returns_col.loc[X.index]
ActualReturns(df, dat, Xidx) ==
    [k \in 1..Len(Xidx) |->
        [Date |-> Xidx[k],
         Ret  |-> TargetReturn(df, dat, CHOOSE j \in 1..Len(dat) : dat[j] = Xidx[k])]]

\* the strategy compounding on every day, invested or not
StrategyStepAlways(cur, pred, ret) == RMul(cur, RAdd(One, ret))

\* the loop body's update of current_strategy
StrategyStep(cur, pred, ret) ==
    IF pred = 1 THEN RMul(cur, RAdd(One, ret)) ELSE RMul(cur, One)

\* the loop body's update of current_market
MarketStep(cur, ret) == RMul(cur, RAdd(One, ret))

\* zip(predictions, actual_returns) stops at the shorter of the two
Walked == Len(positions)
ZipLen == Min(Len(predictions), Len(actual_returns))

Raise(e) ==
    /\ raised' = e
    /\ bt_pc' = "raised"

\* line 87
BuildFeatures ==
    /\ bt_pc = "start"
    /\ LET r == get_features_and_target(raw_df)
       IN  IF r.err # ""
           THEN Raise(r.err) /\ UNCHANGED <<X, y, data>>
           ELSE /\ X' = r.X
                /\ y' = r.y
                /\ data' = r.data
                /\ bt_pc' = "split"
                /\ UNCHANGED raised
    /\ UNCHANGED appVars
    /\ UNCHANGED <<raw_df, threshold, split_point, probs, predictions, actual_returns,
                   current_strategy, current_market, strategy_assets, market_assets,
                   positions, results_df, buy_signals, sell_signals>>

\* lines 91-97: the forest is fitted on the first int(len(X) * 0.8) rows; fitting
\* on no rows raises
FitModel ==
    /\ bt_pc = "split"
    /\ split_point' = (Len(X) * SplitNum) \div SplitDen
    /\ IF split_point' = 0
       THEN Raise("ValueError")
       ELSE bt_pc' = "fitted" /\ UNCHANGED raised
    /\ UNCHANGED appVars
    /\ UNCHANGED <<raw_df, threshold, data, X, y, probs, predictions, actual_returns,
                   current_strategy, current_market, strategy_assets, market_assets,
                   positions, results_df, buy_signals, sell_signals>>

\* the classes the forest has seen: predict_proba has one column per class
TrainClasses == {y[k].Label : k \in 1..split_point}

\* lines 102-114: probabilities for every row of X, positions, returns, and the
\* loop's initial values
Predict ==
    /\ bt_pc = "fitted"
    /\ IF Cardinality(TrainClasses) < 2
       THEN /\ Raise("IndexError")
            /\ UNCHANGED <<probs, predictions, actual_returns, current_strategy,
                           current_market, strategy_assets, market_assets, positions>>
       ELSE /\ \E p \in [1..Len(X) -> ProbSet] :
                  /\ probs' = p
                  /\ predictions' = Positions(p, threshold)
            /\ actual_returns' = ActualReturns(raw_df, data, X)
            /\ strategy_assets' = <<One>>
            /\ market_assets' = <<One>>
            /\ current_strategy' = One
            /\ current_market' = One
            /\ positions' = <<>>
            /\ bt_pc' = "loop"
            /\ UNCHANGED raised
    /\ UNCHANGED appVars
    /\ UNCHANGED <<raw_df, threshold, data, X, y, split_point, results_df,
                   buy_signals, sell_signals>>

\* lines 116-125: one iteration
LoopStep ==
    /\ bt_pc = "loop"
    /\ Walked < ZipLen
    /\ LET pred == predictions[Walked + 1]
           ret  == actual_returns[Walked + 1].Ret
       IN  /\ positions' = Append(positions, pred)
           /\ current_strategy' = StrategyStep(current_strategy, pred, ret)
           /\ current_market' = MarketStep(current_market, ret)
           /\ strategy_assets' = Append(strategy_assets, current_strategy')
           /\ market_assets' = Append(market_assets, current_market')
    /\ UNCHANGED appVars
    /\ UNCHANGED <<raw_df, threshold, bt_pc, data, X, y, split_point, probs, predictions,
                   actual_returns, results_df, buy_signals, sell_signals, raised>>

\* lines 127-137: the DataFrame constructor rejects columns of unequal length
Emit ==
    /\ bt_pc = "loop"
    /\ Walked = ZipLen
    /\ IF Len(actual_returns) # Len(positions)
       THEN Raise("ValueError") /\ UNCHANGED results_df
       ELSE /\ results_df' = [k \in 1..Len(positions) |->
                                 [Date     |-> actual_returns[k].Date,
                                  AI       |-> Tail(strategy_assets)[k],
                                  Market   |-> Tail(market_assets)[k],
                                  Position |-> positions[k]]]
            /\ bt_pc' = "done"
            /\ UNCHANGED raised
    /\ UNCHANGED appVars
    /\ UNCHANGED <<raw_df, threshold, data, X, y, split_point, probs, predictions,
                   actual_returns, current_strategy, current_market, strategy_assets,
                   market_assets, positions, buy_signals, sell_signals>>

----------------------------------------------------------------------------
(* Dashboard: buy and sell markers, main.py 119-123 *)

NoDiff == 2   \* Series.diff() of the first row: not a number, equal to no difference

\* the first row compared with an implicit position 0
PositionDiffFromZero(res, k) ==
    IF k = 1 THEN res[k].Position ELSE res[k].Position - res[k - 1].Position

\* res_df["Position"].diff()
PositionDiff(res, k) ==
    IF k = 1 THEN NoDiff ELSE res[k].Position - res[k - 1].Position

\* res_df[res_df["Position"].diff() == delta], as the dates selected
Signals(res, delta) ==
    Select([k \in 1..Len(res) |-> res[k].Date],
           {res[k].Date : k \in {j \in 1..Len(res) : PositionDiff(res, j) = delta}})

El(stage, el) == [stage |-> stage, el |-> el]

BacktestElements ==
    <<El("backtest", "metric_ai"), El("backtest", "metric_market"),
      El("backtest", "chart_header"), El("backtest", "plotly_chart"),
      El("backtest", "verdict"), El("backtest", "divider")>>

\* main.py 92-147, after run_backtest has returned: summary, markers, chart
RenderBacktest ==
    /\ bt_pc = "done"
    /\ buy_signals' = Signals(results_df, 1)
    /\ sell_signals' = Signals(results_df, -1)
    /\ ui' = ui \o BacktestElements
    /\ bt_pc' = "charted"
    /\ pc' = IF pc = "in_backtest" THEN "charts" ELSE pc
    /\ UNCHANGED <<sliderVars, cacheVars, widgetVars, df_display, df_normalized, result, exc>>
    /\ UNCHANGED <<raw_df, threshold, data, X, y, split_point, probs, predictions,
                   actual_returns, current_strategy, current_market, strategy_assets,
                   market_assets, positions, results_df, raised>>

----------------------------------------------------------------------------
(* Properties of the backtest *)

InLoop == bt_pc \in {"loop", "done", "charted"}
Emitted == bt_pc \in {"done", "charted"}

\* product of (1 + return) over the first k walked days, over all of them or
\* over the invested ones only, taken from the last day backwards
RECURSIVE CumProd(_, _, _, _)
CumProd(rets, pos, k, investedOnly) ==
    IF k = 0 THEN One
    ELSE IF investedOnly /\ pos[k] = 0 THEN CumProd(rets, pos, k - 1, investedOnly)
         ELSE RMul(RAdd(One, rets[k].Ret), CumProd(rets, pos, k - 1, investedOnly))

\* C1: after every step of the simulation loop the buy-and-hold asset is the
\* product of (1 + return) over all walked days, the strategy asset is that
\* product over the walked days whose position is 1, both start at 1.0, and a
\* day with position 0 leaves the strategy asset as it was the day before.
C1_AssetCurves ==
    InLoop =>
        /\ Len(strategy_assets) = Walked + 1
        /\ Len(market_assets) = Walked + 1
        /\ strategy_assets[1] = One
        /\ market_assets[1] = One
        /\ current_market = market_assets[Walked + 1]
        /\ current_strategy = strategy_assets[Walked + 1]
        /\ \A k \in 1..Walked :
              /\ market_assets[k + 1] = CumProd(actual_returns, positions, k, FALSE)
              /\ strategy_assets[k + 1] = CumProd(actual_returns, positions, k, TRUE)
              /\ positions[k] = 0 => strategy_assets[k + 1] = strategy_assets[k]

C1_Witness ==
    /\ bt_pc = "done"
    /\ Walked >= 4
    /\ \E k \in 1..Walked : positions[k] = 0 /\ actual_returns[k].Ret # [n |-> 0, d |-> 1]
    /\ \E k \in 1..Walked : positions[k] = 1 /\ actual_returns[k].Ret # [n |-> 0, d |-> 1]
    /\ current_strategy # current_market

TrainDates == {X[k] : k \in 1..split_point}
RecordDates == {results_df[k].Date : k \in 1..Len(results_df)}

\* C2: the forest is fitted on the first int(0.8 * n) feature rows and every
\* date of an emitted Backtest Record is later than every fitted date.
C2_NoLeakage ==
    Emitted =>
        /\ split_point = (Len(X) * SplitNum) \div SplitDen
        /\ \A d \in RecordDates : \A t \in TrainDates : d > t

\* the dates whose 5-day, 14-day and 3-day-lag windows are all inside the table
\* and that have a following date
WarmDates(df) ==
    {df.rows[i].Date : i \in {j \in 1..Len(df.rows) : j >= RSIWindow + 1 /\ j < Len(df.rows)}}

\* C3: X and y hold exactly one row for every date whose rolling windows are
\* fully populated and whose next-day label is defined, and share one index.
C3_ExactRows ==
    bt_pc = "split" =>
        /\ SeqRange(X) = WarmDates(raw_df)
        /\ Len(X) = Cardinality(SeqRange(X))
        /\ Len(y) = Len(X)
        /\ \A k \in 1..Len(X) : y[k].Date = X[k]

\* the part of C3 the code keeps: X and y share one index, every row is
\* past the warm-up and before the last date
C3_Aligned ==
    bt_pc = "split" =>
        /\ SeqRange(X) \subseteq WarmDates(raw_df)
        /\ Len(X) = Cardinality(SeqRange(X))
        /\ Len(y) = Len(X)
        /\ \A k \in 1..Len(X) : y[k].Date = X[k]

PriceOn(df, date) == df.rows[RowOf(df, date)].TP
LastDate(df) == df.rows[Len(df.rows)].Date

\* the walk is aligned: as many positions as returns, on the dates of X, no
\* undefined return, one record per walked date in increasing date order
C7_Aligned ==
    /\ InLoop =>
        /\ Len(predictions) = Len(actual_returns)
        /\ Len(predictions) = Len(X)
        /\ \A k \in 1..Len(X) :
              /\ actual_returns[k].Date = X[k]
              /\ actual_returns[k].Ret # NaNRet
              /\ X[k] # LastDate(raw_df)
    /\ Emitted =>
        /\ Len(results_df) = Len(X)
        /\ \A k \in 1..Len(X) :
              /\ results_df[k].Date = X[k]
              /\ results_df[k].Position = predictions[k]
        /\ \A k \in 2..Len(X) : results_df[k - 1].Date < results_df[k].Date

\* C7: positions and returns have equal length and the same dates, the return
\* walked for date t is the defined return from t to the next date, and one
\* record is emitted per walked date in increasing date order.
C7_NextDayReturn ==
    /\ C7_Aligned
    /\ InLoop =>
        \A k \in 1..Len(actual_returns) :
            LET t == actual_returns[k].Date
            IN  /\ t + 1 <= LastDate(raw_df)
                /\ actual_returns[k].Ret =
                       RSub(Norm(PriceOn(raw_df, t + 1), PriceOn(raw_df, t)), One)

IndexIn(res, date) == (CHOOSE k \in 1..Len(res) : res[k].Date = date) - 1

\* C9: a date is a buy signal exactly when its position is 1 and the previous
\* record's is 0, a sell signal exactly when its position is 0 and the previous
\* record's is 1, the first record is never a signal; positions [0,0,1,1,0,1]
\* give buys at indices {2,5} and the sell at index {4}.
C9_Signals ==
    bt_pc = "charted" =>
        /\ SeqRange(buy_signals) =
              {results_df[k].Date : k \in {j \in 2..Len(results_df) :
                  results_df[j].Position = 1 /\ results_df[j - 1].Position = 0}}
        /\ SeqRange(sell_signals) =
              {results_df[k].Date : k \in {j \in 2..Len(results_df) :
                  results_df[j].Position = 0 /\ results_df[j - 1].Position = 1}}
        /\ results_df # <<>> =>
              results_df[1].Date \notin SeqRange(buy_signals) \cup SeqRange(sell_signals)
        /\ positions = <<0, 0, 1, 1, 0, 1>> =>
              /\ {IndexIn(results_df, d) : d \in SeqRange(buy_signals)} = {2, 5}
              /\ {IndexIn(results_df, d) : d \in SeqRange(sell_signals)} = {4}

C9_Witness ==
    /\ bt_pc = "charted"
    /\ positions = <<0, 0, 1, 1, 0, 1>>
    /\ Len(buy_signals) = 2
    /\ Len(sell_signals) = 1

----------------------------------------------------------------------------
(* Price Table Provider: what yf.download may hand back *)

Tickers == [t \in {"^GSPC", "1306.T", "JPY=X"} |->
               CASE t = "^GSPC" -> "S&P500" [] t = "1306.T" -> "TOPIX(ETF)" [] OTHER -> "USDJPY"]

FieldOf(col) ==
    CASE col = "S&P500" -> "SP" [] col = "TOPIX(ETF)" -> "TP" [] OTHER -> "FX"

Gaps == {"none", "holiday", "late_start", "dead"}

\* a downloaded table: closes per ticker, with the gaps the exchanges' calendars
\* and failed tickers leave
Download(n, pat, gap, tickers) ==
    [raises |-> FALSE,
     cols |-> tickers,
     rows |-> [i \in 1..n |->
                 [Date |-> i,
                  SP |-> IF "^GSPC" \notin tickers THEN NaN ELSE 100 + i,
                  TP |-> IF "1306.T" \notin tickers \/ (gap = "holiday" /\ i % 3 = 0)
                         THEN NaN ELSE TopixPrice(pat, i),
                  FX |-> IF "JPY=X" \notin tickers \/ gap = "dead"
                            \/ (gap = "late_start" /\ i = 1)
                         THEN NaN ELSE 150 + (i % 2)]]]

DownloadError == [raises |-> TRUE, cols |-> {}, rows |-> <<>>]

----------------------------------------------------------------------------
(* data_service.load_market_data *)

\* data.rename(columns=rename_map): only the tickers that came back
Rename(tickers) == {Tickers[t] : t \in tickers \cap DOMAIN Tickers}

\* DataFrame.ffill(): the last value seen, per column
FFill(rows) ==
    [i \in DOMAIN rows |->
        [f \in DOMAIN rows[i] |->
            IF f = "Date" \/ rows[i][f] # NaN THEN rows[i][f]
            ELSE LET seen == {j \in 1..i : rows[j][f] # NaN}
                 IN  IF seen = {} THEN NaN
                     ELSE rows[CHOOSE j \in seen : \A m \in seen : m <= j][f]]]

\* DataFrame.bfill(): the next value to come, per column
BFill(rows) ==
    [i \in DOMAIN rows |->
        [f \in DOMAIN rows[i] |->
            IF f = "Date" \/ rows[i][f] # NaN THEN rows[i][f]
            ELSE LET ahead == {j \in i..Len(rows) : rows[j][f] # NaN}
                 IN  IF ahead = {} THEN NaN
                     ELSE rows[CHOOSE j \in ahead : \A m \in ahead : j <= m][f]]]

\* the dropna step left out: rows with gaps stay
DropNaSkipped(rows, cols) == rows

\* DataFrame.dropna(): rows with a gap in any column of the table go
DropNa(rows, cols) ==
    Select(rows, {r \in SeqRange(rows) : \A c \in cols : r[FieldOf(c)] # NaN})

EmptyTable == [cols |-> {}, rows |-> <<>>]

\* every row of an empty table is dropped, whatever its columns
IsEmpty(rows) == rows = <<>>

\* the dummy-data way out the source's comment weighs: hand back what is there
load_market_data_no_guard(dl) ==
    IF dl.raises THEN [err |-> "DownloadError", table |-> EmptyTable]
    ELSE [err |-> "",
          table |-> [cols |-> Rename(dl.cols),
                     rows |-> DropNa(BFill(FFill(dl.rows)), Rename(dl.cols))]]

\* the function body, lines 11-52, on the table the download gave
load_market_data(dl) ==
    IF dl.raises THEN [err |-> "DownloadError", table |-> EmptyTable]
    ELSE LET cols == Rename(dl.cols)
             cleaned == DropNa(BFill(FFill(dl.rows)), cols)
         IN  IF IsEmpty(cleaned)
             THEN [err |-> "ValueError", table |-> EmptyTable]
             ELSE [err |-> "", table |-> [cols |-> cols, rows |-> cleaned]]

----------------------------------------------------------------------------
(* @st.cache_data(ttl=3600): memoization keyed on the period *)

TTL == 3600

Periods == {"1y", "2y", "5y", "10y"}

NoEntry == [stored |-> FALSE, at |-> 0, table |-> EmptyTable]
NoCall == [period |-> "", at |-> 0, fetched |-> FALSE, outcome |-> "none",
           table |-> EmptyTable, download |-> DownloadError]

\* an entry is served while it is younger than the ttl
Fresh(entry, t) == entry.stored /\ t - entry.at < TTL

\* a call of the decorated function: served from the store, or the body runs on
\* a new download and its return value, never its exception, is stored
CachedLoad(period, dl) ==
    IF Fresh(cache[period], now)
    THEN /\ last_call' = [period |-> period, at |-> now, fetched |-> FALSE,
                          outcome |-> "returned", table |-> cache[period].table,
                          download |-> DownloadError]
         /\ UNCHANGED cache
    ELSE LET r == load_market_data(dl)
         IN  /\ last_call' = [period |-> period, at |-> now, fetched |-> TRUE,
                              outcome |-> IF r.err = "" THEN "returned" ELSE r.err,
                              table |-> r.table, download |-> dl]
             /\ cache' = [cache EXCEPT ![period] =
                             IF r.err = ""
                             THEN [stored |-> TRUE, at |-> now, table |-> r.table]
                             ELSE NoEntry]

----------------------------------------------------------------------------
(* data_service.process_lag_data *)

\* Series.shift(k): the value of k rows earlier
Shifted(rows, f, i, k) == IF i - k >= 1 THEN rows[i - k][f] ELSE NaN

process_lag_data(df, lag) ==
    LET shift_sp == lag > 0 /\ "S&P500" \in df.cols
        shift_fx == shift_sp /\ "USDJPY" \in df.cols
        shifted == [i \in DOMAIN df.rows |->
                      [Date |-> df.rows[i].Date,
                       SP |-> IF shift_sp THEN Shifted(df.rows, "SP", i, lag) ELSE df.rows[i].SP,
                       TP |-> df.rows[i].TP,
                       FX |-> IF shift_fx THEN Shifted(df.rows, "FX", i, lag) ELSE df.rows[i].FX]]
        display == IF shift_sp THEN DropNa(shifted, df.cols) ELSE shifted
    IN  IF display = <<>>
        THEN [err |-> "ValueError", display |-> <<>>, normalized |-> <<>>]
        ELSE [err |-> "", display |-> display,
              normalized |-> [i \in DOMAIN display |->
                  [f \in DOMAIN display[i] |->
                      IF f = "Date" \/ display[i][f] = NaN THEN display[i][f]
                      ELSE Norm(display[i][f] * 100, display[1][f])]]]

----------------------------------------------------------------------------
(* ai_service.train_and_predict *)

feature_cols ==
    {"S&P500_Chg", "USDJPY_Chg", "S&P500_MA5", "Volatility", "RSI", "Weekday",
     "Is_Month_End", "S&P500_Lag1", "S&P500_Lag2", "S&P500_Lag3"}

Confidences == {60, 100}    \* probability of the predicted class, in hundredths

NoResult == [err |-> "", prediction |-> "", probability |-> 0,
             latest_input |-> {}, importance |-> {}]

Failed(e) == [NoResult EXCEPT !.err = e]

\* every return value or exception the call may end with: the forest's verdict
\* on the latest row is a free choice among the classes it was fitted on
train_and_predict(df) ==
    LET f == get_features_and_target(df)
        classes == {f.y[k].Label : k \in 1..Len(f.y)}
    IN  IF f.err # "" THEN {Failed(f.err)}
        ELSE IF Len(f.X) = 0 THEN {Failed("ValueError")}
        ELSE UNION {
               \* probs has one entry per fitted class: probs[1] of a one-class
               \* forest does not exist
               IF Cardinality(classes) = 1 /\ prediction = 1
               THEN {Failed("IndexError")}
               ELSE {[err |-> "",
                      prediction |-> IF prediction = 1 THEN "up" ELSE "down",
                      probability |-> c,
                      latest_input |-> feature_cols,
                      importance |-> feature_cols] : c \in Confidences}
               : prediction \in classes}

----------------------------------------------------------------------------
(* main.py: one run of the dashboard script *)

NoExc == [type |-> "", stage |-> ""]

Throw(type, stage) ==
    /\ exc' = [type |-> type, stage |-> stage]
    /\ pc' = "except"

\* line 48
LoadData(downloads) ==
    /\ pc = "load"
    /\ \E dl \in downloads : CachedLoad(period_option, dl)
    /\ IF last_call'.outcome = "returned"
       THEN /\ raw_df' = last_call'.table
            /\ pc' = "lag"
            /\ UNCHANGED exc
       ELSE /\ Throw(last_call'.outcome, "load")
            /\ UNCHANGED raw_df
    /\ now' = now
    /\ UNCHANGED <<sliderVars, widgetVars, df_display, df_normalized, result, ui>>
    /\ UNCHANGED <<threshold, bt_pc, data, X, y, split_point, probs, predictions,
                   actual_returns, current_strategy, current_market, strategy_assets,
                   market_assets, positions, results_df, buy_signals, sell_signals, raised>>

\* line 49
ProcessLag ==
    /\ pc = "lag"
    /\ LET r == process_lag_data(raw_df, lag_days)
       IN  IF r.err # ""
           THEN Throw(r.err, "lag") /\ UNCHANGED <<df_display, df_normalized>>
           ELSE /\ df_display' = r.display
                /\ df_normalized' = r.normalized
                /\ pc' = "predict"
                /\ UNCHANGED exc
    /\ UNCHANGED <<sliderVars, cacheVars, widgetVars, result, ui, btVars>>

PredictionHead ==
    <<El("predict", "success"), El("predict", "metric_prediction"),
      El("predict", "metric_accuracy")>>

PredictionTail ==
    <<El("predict", "caption_sp500"), El("predict", "caption_usdjpy"),
      El("predict", "importance_header"), El("predict", "bar_chart"),
      El("predict", "divider")>>

\* lines 54-81; the spinner is gone once its block ends and is not an element
PredictionBlock ==
    /\ pc = "predict"
    /\ IF ~run_prediction
       THEN pc' = "backtest" /\ UNCHANGED <<result, exc, ui>>
       ELSE \E r \in train_and_predict(raw_df) :
               IF r.err # ""
               THEN Throw(r.err, "predict") /\ UNCHANGED <<result, ui>>
               ELSE /\ result' = r
                    /\ IF {"S&P500_Chg", "USDJPY_Chg"} \subseteq r.latest_input
                       THEN /\ ui' = ui \o PredictionHead \o PredictionTail
                            /\ pc' = "backtest"
                            /\ UNCHANGED exc
                       ELSE /\ ui' = ui \o PredictionHead
                            /\ Throw("KeyError", "predict")
    /\ UNCHANGED <<sliderVars, cacheVars, widgetVars, df_display, df_normalized, btVars>>

\* lines 86-90: the section header is written, then run_backtest is called
BacktestBlock ==
    /\ pc = "backtest"
    /\ IF ~run_simulation
       THEN pc' = "charts" /\ UNCHANGED <<ui, bt_pc>>
       ELSE /\ ui' = Append(ui, El("backtest", "subheader"))
            /\ bt_pc' = "start"
            /\ pc' = "in_backtest"
    /\ UNCHANGED <<sliderVars, cacheVars, widgetVars, df_display, df_normalized, result, exc>>
    /\ UNCHANGED <<raw_df, threshold, data, X, y, split_point, probs, predictions,
                   actual_returns, current_strategy, current_market, strategy_assets,
                   market_assets, positions, results_df, buy_signals, sell_signals, raised>>

\* run_backtest has raised: the exception leaves line 90
BacktestRaised ==
    /\ pc = "in_backtest"
    /\ bt_pc = "raised"
    /\ Throw(raised, "backtest")
    /\ UNCHANGED <<sliderVars, cacheVars, widgetVars, df_display, df_normalized, result, ui,
                   btVars>>

ChartElements ==
    <<El("charts", "subheader"), El("charts", "line_chart"),
      El("charts", "correlation_header")>>

\* lines 152-176
Charts ==
    /\ pc = "charts"
    /\ IF {"S&P500", "TOPIX(ETF)"} \subseteq raw_df.cols
       THEN /\ ui' = ui \o ChartElements \o
                     <<El("charts", "correlation"), El("charts", "scatter_header"),
                       El("charts", "scatter")>>
            /\ pc' = "done"
            /\ UNCHANGED exc
       ELSE /\ ui' = ui \o ChartElements
            /\ Throw("KeyError", "charts")
    /\ UNCHANGED <<sliderVars, cacheVars, widgetVars, df_display, df_normalized, result,
                   btVars>>

\* lines 178-179
ExceptHandler ==
    /\ pc = "except"
    /\ ui' = Append(ui, El("error", exc.type))
    /\ pc' = "error_shown"
    /\ UNCHANGED <<sliderVars, cacheVars, widgetVars, df_display, df_normalized, result, exc,
                   btVars>>

----------------------------------------------------------------------------
(* Specifications *)

BtIdle ==
    /\ data = <<>> /\ X = <<>> /\ y = <<>>
    /\ split_point = 0
    /\ probs = <<>> /\ predictions = <<>> /\ actual_returns = <<>>
    /\ current_strategy = One /\ current_market = One
    /\ strategy_assets = <<>> /\ market_assets = <<>>
    /\ positions = <<>> /\ results_df = <<>>
    /\ buy_signals = <<>> /\ sell_signals = <<>>
    /\ raised = ""

SliderIdle == prev_threshold = 0 /\ prev_predictions = <<>>

CacheIdle ==
    /\ cache = [p \in Periods |-> NoEntry]
    /\ now = 0
    /\ last_call = NoCall

ScriptIdle ==
    /\ df_display = <<>> /\ df_normalized = <<>>
    /\ result = NoResult
    /\ exc = NoExc
    /\ ui = <<>>

\* the sidebar's defaults: index=1 of the periods, lag 1, no button pressed
WidgetDefaults ==
    /\ period_option = "2y"
    /\ lag_days = 1
    /\ run_prediction = FALSE
    /\ run_simulation = FALSE

(* run_backtest and the drawing of its result, on any clean price table *)

MinRows == RSIWindow

BacktestTables ==
    {PriceTable(n, pat, cols) : n \in MinRows..MaxRows, pat \in Patterns,
                                cols \in {AllCols, AllCols \ {"USDJPY"}}}

InitBacktest ==
    /\ raw_df \in BacktestTables
    /\ threshold \in Thresholds
    /\ bt_pc = "start"
    /\ pc = "idle"
    /\ BtIdle /\ SliderIdle /\ CacheIdle /\ ScriptIdle /\ WidgetDefaults

NextBacktest ==
    \/ BuildFeatures
    \/ FitModel
    \/ Predict
    \/ LoopStep
    \/ Emit
    \/ RenderBacktest

SpecBacktest == InitBacktest /\ [][NextBacktest]_vars

(* the threshold rule on a fixed probability series, as the slider moves *)

SeriesLen == 3
SeriesProbs == {0, 30, 45, 50, 70, 100}

\* line 103 on the series
ApplyThreshold ==
    /\ predictions = <<>>
    /\ predictions' = Positions(probs, threshold)
    /\ UNCHANGED <<raw_df, threshold, bt_pc, data, X, y, split_point, probs,
                   actual_returns, current_strategy, current_market, strategy_assets,
                   market_assets, positions, results_df, buy_signals, sell_signals, raised>>
    /\ UNCHANGED appVars

\* main.py 37-41 and 90: the slider is moved and the rule runs again; the forest
\* is seeded (random_state=42), so the same table gives the same probabilities
MoveSlider ==
    /\ predictions # <<>>
    /\ \E t \in Thresholds \ {threshold} :
          /\ threshold' = t
          /\ predictions' = Positions(probs, t)
    /\ prev_threshold' = threshold
    /\ prev_predictions' = predictions
    /\ UNCHANGED <<raw_df, bt_pc, data, X, y, split_point, probs,
                   actual_returns, current_strategy, current_market, strategy_assets,
                   market_assets, positions, results_df, buy_signals, sell_signals, raised>>
    /\ UNCHANGED <<cacheVars, widgetVars, scriptVars>>

InitThreshold ==
    /\ raw_df = EmptyTable
    /\ threshold \in Thresholds
    /\ bt_pc = "fitted"
    /\ pc = "idle"
    /\ data = <<>> /\ X = <<>> /\ y = <<>>
    /\ split_point = 0
    /\ probs \in [1..SeriesLen -> SeriesProbs]
    /\ predictions = <<>> /\ actual_returns = <<>>
    /\ current_strategy = One /\ current_market = One
    /\ strategy_assets = <<>> /\ market_assets = <<>>
    /\ positions = <<>> /\ results_df = <<>>
    /\ buy_signals = <<>> /\ sell_signals = <<>>
    /\ raised = ""
    /\ SliderIdle /\ CacheIdle /\ ScriptIdle /\ WidgetDefaults

NextThreshold ==
    \/ ApplyThreshold
    \/ MoveSlider

SpecThreshold == InitThreshold /\ [][NextThreshold]_vars

(* load_market_data under its memoization, requests over time *)

MaxTime == 3700
Ticks == {TTL \div 2 - 1, TTL \div 2, TTL \div 2 + 1}
CachePeriods == {"1y", "2y"}
AllTickers == DOMAIN Tickers

CacheDownloads ==
    {Download(n, "zigzag", gap, AllTickers) : n \in 0..2, gap \in {"none", "late_start", "dead"}}
        \cup {DownloadError}

Tick ==
    /\ \E d \in Ticks :
          /\ now + d <= MaxTime
          /\ now' = now + d
    /\ UNCHANGED <<cache, last_call, btVars, sliderVars, widgetVars, scriptVars>>

Request ==
    /\ \E p \in CachePeriods, dl \in CacheDownloads : CachedLoad(p, dl)
    /\ now' = now
    /\ UNCHANGED <<btVars, sliderVars, widgetVars, scriptVars>>

InitCache ==
    /\ raw_df = EmptyTable
    /\ threshold = 50
    /\ bt_pc = "idle"
    /\ pc = "idle"
    /\ BtIdle /\ SliderIdle /\ CacheIdle /\ ScriptIdle /\ WidgetDefaults

NextCache ==
    \/ Tick
    \/ Request

SpecCache == InitCache /\ [][NextCache]_vars

(* one run of the dashboard script, from any sidebar setting, with the store *)
(* empty or holding an earlier fetch of the period                           *)

MainPeriods == {"1y", "2y"}
MainLags == {0, 1, 5}
MainThresholds == {30, 50, 70}
MainLens == {0, 3, 19}

MainDownloads ==
    {Download(n, pat, gap, tk) : n \in MainLens, pat \in {"zigzag", "rise"}, gap \in Gaps,
                                 tk \in {AllTickers, AllTickers \ {"JPY=X"}}}
        \cup {DownloadError}

EarlierFetch == load_market_data(Download(19, "zigzag", "none", AllTickers)).table

InitMain ==
    /\ period_option \in MainPeriods
    /\ lag_days \in MainLags
    /\ run_prediction \in BOOLEAN
    /\ run_simulation \in BOOLEAN
    /\ threshold \in MainThresholds
    /\ raw_df = EmptyTable
    /\ bt_pc = "idle"
    /\ pc = "load"
    /\ \E warm \in BOOLEAN :
          cache = [p \in Periods |->
                      IF warm /\ p = period_option
                      THEN [stored |-> TRUE, at |-> 0, table |-> EarlierFetch]
                      ELSE NoEntry]
    /\ now \in {TTL - 1, TTL}
    /\ last_call = NoCall
    /\ BtIdle /\ SliderIdle /\ ScriptIdle

NextMain ==
    \/ LoadData(MainDownloads)
    \/ ProcessLag
    \/ PredictionBlock
    \/ BacktestBlock
    \/ BuildFeatures
    \/ FitModel
    \/ Predict
    \/ LoopStep
    \/ Emit
    \/ BacktestRaised
    \/ RenderBacktest
    \/ Charts
    \/ ExceptHandler

SpecMain == InitMain /\ [][NextMain]_vars

----------------------------------------------------------------------------
(* Properties of the threshold rule *)

Invested(pos) == Cardinality({i \in DOMAIN pos : pos[i] = 1})

\* C10: on a fixed probability series the position rule is monotone in the
\* threshold: with t1 <= t2 every day invested under t2 is invested under t1,
\* so lowering the threshold never lowers the number of invested days.
C10_Monotone ==
    prev_threshold # 0 =>
        LET lo == IF threshold <= prev_threshold THEN predictions ELSE prev_predictions
            hi == IF threshold <= prev_threshold THEN prev_predictions ELSE predictions
        IN  /\ DOMAIN lo = DOMAIN hi
            /\ \A i \in DOMAIN hi : hi[i] = 1 => lo[i] = 1
            /\ Invested(lo) >= Invested(hi)
            /\ \A i \in DOMAIN predictions :
                  predictions[i] = (IF probs[i] >= threshold THEN 1 ELSE 0)

C10_Witness ==
    /\ prev_threshold = 50
    /\ threshold = 30
    /\ Invested(predictions) > Invested(prev_predictions)
    /\ Invested(prev_predictions) > 0
    /\ Invested(predictions) < Len(predictions)

----------------------------------------------------------------------------
(* Properties of the fetch and its memoization *)

\* a download that is empty, or empty once gaps are filled forward and backward
\* and the rows still holding a gap are dropped: no rows, or a column of the
\* table that never has a value
Unusable(dl) ==
    \/ dl.raises
    \/ dl.rows = <<>>
    \/ \E t \in dl.cols : \A i \in DOMAIN dl.rows : dl.rows[i][FieldOf(Tickers[t])] = NaN

\* C5: a request for a period fetched successfully less than 3600 s ago gets
\* the stored table and no fetch happens; a request after expiry, or for a
\* period with no entry, fetches; a fetch that fails or comes back empty ends
\* in an error and is neither stored nor handed out.
C5_CachePolicy ==
    [][ (now' = now /\ last_call' # last_call) =>
          LET p == last_call'.period
              entry == cache[p]
              served == entry.stored /\ now - entry.at < 3600
          IN  /\ served =>
                    /\ ~last_call'.fetched
                    /\ last_call'.outcome = "returned"
                    /\ last_call'.table = entry.table
                    /\ cache' = cache
              /\ ~served => last_call'.fetched
              /\ (last_call'.fetched /\ Unusable(last_call'.download)) =>
                    /\ last_call'.outcome \notin {"returned", "none"}
                    /\ last_call'.table = EmptyTable
                    /\ ~cache'[p].stored
              /\ (last_call'.fetched /\ ~Unusable(last_call'.download)) =>
                    /\ last_call'.outcome = "returned"
                    /\ cache'[p] = [stored |-> TRUE, at |-> now, table |-> last_call'.table]
              /\ \A q \in Periods : cache'[q].stored => cache'[q].table.rows # <<>>
              /\ \A q \in Periods \ {p} : cache'[q] = cache[q]
      ]_vars

C5_Witness ==
    /\ ~last_call.fetched
    /\ last_call.outcome = "returned"
    /\ last_call.at - cache[last_call.period].at = TTL - 1
    /\ \E q \in Periods \ {last_call.period} :
          cache[q].stored /\ cache[q].at > cache[last_call.period].at

----------------------------------------------------------------------------
(* Properties of the dashboard run *)

Failing == pc \in {"except", "error_shown"}

\* C4: with the index columns present and no USDJPY column the pipeline does
\* not fail; the currency feature is left out and the importance mapping has
\* exactly the features used.
C4_NoCurrency ==
    ({"S&P500", "TOPIX(ETF)"} \subseteq raw_df.cols /\ "USDJPY" \notin raw_df.cols) =>
        /\ exc.type # "KeyError"
        /\ raised # "KeyError"
        /\ (pc = "backtest" /\ run_prediction) =>
              result.importance = feature_cols \ {"USDJPY_Chg"}

\* C6: an empty download, or one that is empty after forward fill, backward
\* fill and dropping the rows with gaps, makes load_market_data raise; the run
\* goes to the error message without reaching process_lag_data, the features,
\* the training or the backtest.
C6_EmptyFetch ==
    (last_call.fetched /\ ~last_call.download.raises /\ Unusable(last_call.download)) =>
        /\ last_call.outcome = "ValueError"
        /\ Failing
        /\ exc = [type |-> "ValueError", stage |-> "load"]
        /\ raw_df = EmptyTable
        /\ df_display = <<>> /\ df_normalized = <<>>
        /\ result = NoResult
        /\ bt_pc = "idle" /\ X = <<>> /\ results_df = <<>>
        /\ ui = IF pc = "error_shown" THEN <<El("error", "ValueError")>> ELSE <<>>

C6_Witness ==
    /\ pc = "error_shown"
    /\ last_call.fetched
    /\ last_call.download.rows # <<>>
    /\ Unusable(last_call.download)
    /\ ui = <<El("error", "ValueError")>>

Errors == {k \in DOMAIN ui : ui[k].stage = "error"}

\* C8: every failure is caught at the top level and shown as one error
\* message, and the stage that failed (load, prediction, backtest) has
\* rendered nothing of its own before it.
C8_NoPartialStage ==
    /\ Failing => exc.type # ""
    /\ pc = "error_shown" =>
          /\ Cardinality(Errors) = 1
          /\ ui[Len(ui)] = El("error", exc.type)
          /\ exc.stage \in {"load", "predict", "backtest"} =>
                \A k \in DOMAIN ui : ui[k].stage # exc.stage
    /\ pc # "error_shown" => Errors = {}

\* what the script keeps of C8: one message, the last element, for whatever failed
C8_OneMessage ==
    /\ Failing => exc.type # ""
    /\ pc = "error_shown" =>
          /\ Cardinality(Errors) = 1
          /\ ui[Len(ui)] = El("error", exc.type)
    /\ pc # "error_shown" => Errors = {}

\* a complete run: prediction and simulation both asked for and both drawn
FullRun ==
    /\ pc = "done" /\ run_prediction /\ run_simulation
    /\ \E k \in DOMAIN ui : ui[k] = El("predict", "bar_chart")
    /\ \E k \in DOMAIN ui : ui[k] = El("backtest", "plotly_chart")

====
